---- MODULE Spec2Model ----
(***************************************************************************)
(* Block.tsx: the recursive renderer of a tree of report elements.         *)
(*                                                                         *)
(* A ReportElement is a record [element, reportId, metadata].  Its payload *)
(* `element` is an Immutable List (a nested block), an Immutable Map (a    *)
(* simple element with a "type") or missing; the three are told apart by   *)
(* the field `tag`, which stands for the `instanceof` tests and the        *)
(* truthiness test of the code.  Sequences are 1-based here and 0-based in *)
(* the code: the child at position i carries the index i - 1.              *)
(***************************************************************************)
EXTENDS Integers, Sequences, FiniteSets, TLC

VARIABLES
    props,               \* this.props of the root Block
    width,               \* the width AutoSizer last handed to renderElements
    isFullScreen,        \* FullScreenWrapper.isFullScreen (a static field)
    loaded,              \* the React.lazy components whose import has resolved
    broken,              \* the leaf components whose own render raises
    out,                 \* what the last call of renderElements returned
    fullScreenAtRender,  \* history: isFullScreen when `out` was computed
    repeat               \* history: the render before, when it had the same
                         \* props and width as the last one

vars == <<props, width, isFullScreen, loaded, broken, out,
          fullScreenAtRender, repeat>>

\* ------------------------------------------------------------- bounds
MaxNodes == 3       \* report elements below the root block
MaxDepth == 2       \* levels of nested blocks below the root block
MaxWidth == 3       \* container widths 1..MaxWidth
MaxDim == 3         \* widths and heights of a dimension spec, 0..MaxDim

\* ------------------------------------------------------- the data model
RUNNING == "RUNNING"
RERUN_REQUESTED == "RERUN_REQUESTED"
\* The code tells RUNNING and RERUN_REQUESTED from every other run state;
\* two other states stand for the rest of the enum.
RunStates == {"NOT_RUNNING", RUNNING, RERUN_REQUESTED, "STOP_REQUESTED"}

\* The keys of the dispatch table of renderElement.
PlainTypes == {"alert", "audio", "balloons", "chart", "deckGlChart",
               "docString", "exception", "imgs", "json", "markdown",
               "plotlyChart", "progress", "table", "text", "vegaLiteChart",
               "video"}
IndexedTypes == {"bokehChart", "graphvizChart"}
WidgetTypes == {"button", "checkbox", "dateInput", "multiselect",
                "numberInput", "radio", "selectbox", "slider", "textArea",
                "textInput", "timeInput"}

\* The components imported through React.lazy.
LazyTypes == {"audio", "balloons", "bokehChart", "dataFrame", "deckGlChart",
              "imgs", "graphvizChart", "plotlyChart", "vegaLiteChart",
              "video", "button", "checkbox", "dateInput", "multiselect",
              "progress", "radio", "selectbox", "slider", "textArea",
              "textInput", "timeInput", "numberInput"}

Missing == [tag |-> "undefined"]
MapOf(type) == [tag |-> "Map", type |-> type]
ListOf(items) == [tag |-> "List", items |-> items]

NoMetadata == [tag |-> "undefined"]
MetadataOf(spec) == [tag |-> "ForwardMsgMetadata", elementDimensionSpec |-> spec]
NoDimensionSpec == [tag |-> "undefined"]
DimensionSpec(w, h) == [tag |-> "ElementDimensionSpec", width |-> w, height |-> h]

ReportElementOf(element, reportId, metadata) ==
    [element |-> element, reportId |-> reportId, metadata |-> metadata]

\* The outcome of a call: a value, or an exception that leaves the call.
Return(v) == [threw |-> FALSE, value |-> v]
Throw(e) == [threw |-> TRUE, error |-> e]

Min(a, b) == IF a < b THEN a ELSE b
Least(S) == CHOOSE x \in S : \A y \in S : x <= y

\* Immutable List.get(index, notSetValue), index 0-based.
ListGet(list, index, notSetValue) ==
    IF index + 1 \in 1..Len(list) THEN list[index + 1] ELSE notSetValue

\* ------------------------------------------------------------ rendering
\* getElements: `elementsToRender` is a local that still holds
\* this.props.elements while the callback of map runs.
getElements(p) ==
    LET elementsToRender == p.elements
    IN  IF p.reportRunState = RUNNING
        THEN [i \in 1..Len(p.elements) |->
                LET reportElement == p.elements[i]
                    element == reportElement.element
                IN  IF element.tag = "Map"
                    THEN IF element.type = "empty"
                         THEN ListGet(elementsToRender, i - 1, reportElement)
                         ELSE reportElement
                    ELSE reportElement]
        ELSE elementsToRender

\* Mutant: while running, the elements of the running report are the stale
\* ones.
isElementStaleInverted(p, reportElement) ==
    IF p.reportRunState = RERUN_REQUESTED
    THEN TRUE
    ELSE IF p.reportRunState = RUNNING
         THEN reportElement.reportId = p.reportId
         ELSE FALSE

isElementStale(p, reportElement) ==
    IF p.reportRunState = RERUN_REQUESTED
    THEN TRUE
    ELSE IF p.reportRunState = RUNNING
         THEN reportElement.reportId # p.reportId
         ELSE FALSE

\* dispatchOneOf(element, "type", {...}): the React element of the leaf, with
\* the props the table hands to it.  The types are keys of the table; the
\* React key that some widgets take from their id is left out.
Dispatch(p, el, index, w, height) ==
    IF el.type = "empty" THEN [tag |-> "undefined"]
    ELSE IF el.type = "dataFrame"
    THEN [tag |-> "component", type |-> el.type, element |-> el,
          width |-> w, height |-> height]
    ELSE IF el.type \in IndexedTypes
    THEN [tag |-> "component", type |-> el.type, element |-> el,
          width |-> w, index |-> index]
    ELSE IF el.type \in WidgetTypes
    THEN [tag |-> "component", type |-> el.type, element |-> el,
          width |-> w, widgetMgr |-> p.widgetMgr,
          disabled |-> p.widgetsDisabled]
    ELSE [tag |-> "component", type |-> el.type, element |-> el, width |-> w]

\* Mutant: the width of the dimension spec is taken as it is, not capped by
\* the container width.
renderElementUncapped(p, element, index, w, metadata) ==
    IF element.tag = "undefined"
    THEN Throw("Transmission error.")
    ELSE LET hasSpec == /\ metadata.tag # "undefined"
                        /\ metadata.elementDimensionSpec.tag # "undefined"
             spec == metadata.elementDimensionSpec
             w1 == IF hasSpec /\ spec.width > 0 THEN spec.width ELSE w
             height == IF hasSpec /\ spec.height > 0 THEN {spec.height} ELSE {}
         IN  Return(Dispatch(p, element, index, w1, height))

\* renderElement.  An undefined height is the empty set, a height h is {h}.
renderElement(p, element, index, w, metadata) ==
    IF element.tag = "undefined"
    THEN Throw("Transmission error.")
    ELSE LET hasSpec == /\ metadata.tag # "undefined"
                        /\ metadata.elementDimensionSpec.tag # "undefined"
             spec == metadata.elementDimensionSpec
             w1 == IF hasSpec /\ spec.width > 0 THEN Min(spec.width, w) ELSE w
             height == IF hasSpec /\ spec.height > 0 THEN {spec.height} ELSE {}
         IN  Return(Dispatch(p, element, index, w1, height))

LoadingAlert(w) == [type |-> "alert", text |-> "Loading...", width |-> w]

\* The div around a leaf: the component inside a Suspense with the
\* "Loading..." alert as fallback, inside an ErrorBoundary.
ElementContainer(className, index, w, wrappers, component) ==
    [tag |-> "div", className |-> className, key |-> index, width |-> w,
     wrappers |-> wrappers, boundaryWidth |-> w, fallback |-> LoadingAlert(w),
     component |-> component]

ClassNameOf(isStale, fullScreen) ==
    IF isStale /\ ~fullScreen
    THEN "element-container stale-element"
    ELSE "element-container"

\* Mutant: the component is not wrapped in the ErrorBoundary.
renderElementWithoutErrorBoundary(p, reportElement, index, w) ==
    LET element == reportElement.element
    IN  IF element.tag = "undefined"
        THEN Throw("TypeError")
        ELSE IF element.type = "empty"
        THEN Return([tag |-> "div", className |-> "stEmpty", key |-> index])
        ELSE LET component ==
                     renderElement(p, element, index, w, reportElement.metadata)
                 isStale == /\ p.showStaleElementIndicator
                            /\ isElementStale(p, reportElement)
             IN  IF component.threw
                 THEN component
                 ELSE Return(ElementContainer(
                          ClassNameOf(isStale, isFullScreen), index, w,
                          <<"Suspense">>, component.value))

\* Mutant: the component is not wrapped in the Suspense.
renderElementWithoutSuspense(p, reportElement, index, w) ==
    LET element == reportElement.element
    IN  IF element.tag = "undefined"
        THEN Throw("TypeError")
        ELSE IF element.type = "empty"
        THEN Return([tag |-> "div", className |-> "stEmpty", key |-> index])
        ELSE LET component ==
                     renderElement(p, element, index, w, reportElement.metadata)
                 isStale == /\ p.showStaleElementIndicator
                            /\ isElementStale(p, reportElement)
             IN  IF component.threw
                 THEN component
                 ELSE Return(ElementContainer(
                          ClassNameOf(isStale, isFullScreen), index, w,
                          <<"ErrorBoundary">>, component.value))

\* Mutant: the class is decided by the full-screen flag as it was at the
\* render before.
renderElementWithCachedFullScreen(p, reportElement, index, w) ==
    LET element == reportElement.element
    IN  IF element.tag = "undefined"
        THEN Throw("TypeError")
        ELSE IF element.type = "empty"
        THEN Return([tag |-> "div", className |-> "stEmpty", key |-> index])
        ELSE LET component ==
                     renderElement(p, element, index, w, reportElement.metadata)
                 isStale == /\ p.showStaleElementIndicator
                            /\ isElementStale(p, reportElement)
             IN  IF component.threw
                 THEN component
                 ELSE Return(ElementContainer(
                          ClassNameOf(isStale, fullScreenAtRender), index, w,
                          <<"ErrorBoundary", "Suspense">>, component.value))

\* Mutant: an "empty" element is not returned early and goes through the
\* dispatch like any other.
renderEmptyThroughDispatch(p, reportElement, index, w) ==
    LET element == reportElement.element
    IN  IF element.tag = "undefined"
        THEN Throw("TypeError")
        ELSE LET component ==
                     renderElement(p, element, index, w, reportElement.metadata)
                 isStale == /\ p.showStaleElementIndicator
                            /\ isElementStale(p, reportElement)
             IN  IF component.threw
                 THEN component
                 ELSE Return(ElementContainer(
                          ClassNameOf(isStale, isFullScreen), index, w,
                          <<"ErrorBoundary", "Suspense">>, component.value))

\* renderElementWithErrorBoundary.  `element.get("type")` on a missing
\* payload raises a TypeError before renderElement is called.
renderElementWithErrorBoundary(p, reportElement, index, w) ==
    LET element == reportElement.element
    IN  IF element.tag = "undefined"
        THEN Throw("TypeError")
        ELSE IF element.type = "empty"
        THEN Return([tag |-> "div", className |-> "stEmpty", key |-> index])
        ELSE LET component ==
                     renderElement(p, element, index, w, reportElement.metadata)
                 isStale == /\ p.showStaleElementIndicator
                            /\ isElementStale(p, reportElement)
             IN  IF component.threw
                 THEN component
                 ELSE Return(ElementContainer(
                          ClassNameOf(isStale, isFullScreen), index, w,
                          <<"ErrorBoundary", "Suspense">>, component.value))

RECURSIVE renderElements(_, _)

\* Mutant: the nested Block is not handed widgetsDisabled.
renderBlockEnabled(p, element, index, w) ==
    LET nested == [elements |-> element.items,
                   reportId |-> p.reportId,
                   reportRunState |-> p.reportRunState,
                   showStaleElementIndicator |-> p.showStaleElementIndicator,
                   widgetMgr |-> p.widgetMgr,
                   widgetsDisabled |-> FALSE]
    IN  [tag |-> "div", className |-> "stBlock", key |-> index, width |-> w,
         block |-> [props |-> nested, rendered |-> renderElements(nested, w)]]

\* renderBlock: the nested Block is rendered by React with the props given
\* here, inside a div as wide as the parent's measure.
renderBlock(p, element, index, w) ==
    LET nested == [elements |-> element.items,
                   reportId |-> p.reportId,
                   reportRunState |-> p.reportRunState,
                   showStaleElementIndicator |-> p.showStaleElementIndicator,
                   widgetMgr |-> p.widgetMgr,
                   widgetsDisabled |-> p.widgetsDisabled]
    IN  [tag |-> "div", className |-> "stBlock", key |-> index, width |-> w,
         block |-> [props |-> nested, rendered |-> renderElements(nested, w)]]

\* renderElements: map over the children in order; the first exception
\* leaves the call; null nodes are filtered out.
renderElements(p, w) ==
    LET elementsToRender == getElements(p)
        results == [i \in 1..Len(elementsToRender) |->
                      LET reportElement == elementsToRender[i]
                      IN  IF reportElement.element.tag = "List"
                          THEN Return(renderBlock(p, reportElement.element,
                                                  i - 1, w))
                          ELSE renderElementWithErrorBoundary(
                                   p, reportElement, i - 1, w)]
        thrown == {i \in 1..Len(elementsToRender) : results[i].threw}
    IN  IF thrown # {}
        THEN results[Least(thrown)]
        ELSE Return(SelectSeq([i \in 1..Len(elementsToRender) |->
                                  results[i].value],
                              LAMBDA node : node.tag # "null"))

\* --------------------------------------------------- what React commits
\* The committed view of a render result, given the lazy components that are
\* loaded (ld) and the leaf components whose render raises (br).  A leaf
\* component that suspends shows the fallback of the Suspense around it; one
\* that raises is replaced by the ErrorBoundary around it; an exception that
\* no boundary of the Block tree catches unmounts the whole tree.
Crash(e) == [crashed |-> TRUE, error |-> e]

\* components/shared/ErrorBoundary: an exception raised below it is replaced
\* by its own error display and goes no further.
ErrorBoundary(child, w, key) ==
    IF child.crashed
    THEN [crashed |-> FALSE, shows |-> "error", key |-> key, width |-> w]
    ELSE child

\* Suspense: a lazy component that is not loaded yet suspends, and the
\* fallback is shown in its place.
Suspense(c, fallback, ld, br, key) ==
    IF c.type \in LazyTypes \ ld
    THEN [crashed |-> FALSE, shows |-> "fallback", key |-> key,
          alert |-> fallback]
    ELSE IF c.type \in br
    THEN Crash("component")
    ELSE [crashed |-> FALSE, shows |-> "component", key |-> key,
          component |-> c]

\* The component of a leaf with no Suspense around it.
Bare(c, ld, br, key) ==
    IF c.type \in LazyTypes \ ld
    THEN Crash("suspended")
    ELSE IF c.type \in br
    THEN Crash("component")
    ELSE [crashed |-> FALSE, shows |-> "component", key |-> key,
          component |-> c]

ViewLeaf(node, ld, br) ==
    LET c == node.component
        has(wrapper) == \E k \in 1..Len(node.wrappers) : node.wrappers[k] = wrapper
        inner == IF c.tag = "undefined"
                 THEN [crashed |-> FALSE, shows |-> "nothing", key |-> node.key]
                 ELSE IF has("Suspense")
                 THEN Suspense(c, node.fallback, ld, br, node.key)
                 ELSE Bare(c, ld, br, node.key)
    IN  IF has("ErrorBoundary")
        THEN ErrorBoundary(inner, node.boundaryWidth, node.key)
        ELSE inner

RECURSIVE View(_, _, _)

ViewNode(node, ld, br) ==
    IF node.className = "stEmpty"
    THEN [crashed |-> FALSE, shows |-> "stEmpty", key |-> node.key]
    ELSE IF node.className = "stBlock"
    THEN LET inner == View(node.block.rendered, ld, br)
         IN  IF inner.crashed
             THEN inner
             ELSE [crashed |-> FALSE, shows |-> "block", key |-> node.key,
                   nodes |-> inner.nodes]
    ELSE ViewLeaf(node, ld, br)

View(result, ld, br) ==
    IF result.threw
    THEN Crash(result.error)
    ELSE LET shown == [i \in 1..Len(result.value) |->
                          ViewNode(result.value[i], ld, br)]
             crashed == {i \in 1..Len(result.value) : shown[i].crashed}
         IN  IF crashed # {}
             THEN shown[Least(crashed)]
             ELSE [crashed |-> FALSE, shows |-> "block", nodes |-> shown]

\* ------------------------------------------------ the trees handed in
RECURSIVE NodeCount(_)
NodeCount(list) ==
    IF list = <<>> THEN 0
    ELSE LET head == list[1]
         IN  1 + (IF head.element.tag = "List"
                  THEN NodeCount(head.element.items) ELSE 0)
               + NodeCount(Tail(list))

\* The places where a delta can put a report element: an existing child, or
\* one past the last child, of the list or of a nested block.
RECURSIVE Slots(_)
Slots(list) ==
    {<<i>> : i \in 1..(Len(list) + 1)}
    \cup UNION {{<<i>> \o s : s \in Slots(list[i].element.items)} :
                i \in {j \in 1..Len(list) : list[j].element.tag = "List"}}

RECURSIVE SetIn(_, _, _)
SetIn(list, path, item) ==
    LET i == path[1]
    IN  IF Len(path) = 1
        THEN IF i = Len(list) + 1
             THEN Append(list, item)
             ELSE [list EXCEPT ![i] = item]
        ELSE [list EXCEPT ![i] =
                 [@ EXCEPT !.element =
                     ListOf(SetIn(list[i].element.items, Tail(path), item))]]

ReportIds == {"r1", "r2"}
WidgetMgrs == {"mgr1", "mgr2"}
Widths == 1..MaxWidth

Leaf(type, reportId) == ReportElementOf(MapOf(type), reportId, NoMetadata)
NoPayload == ReportElementOf(Missing, "r1", NoMetadata)
EmptyBlock == ReportElementOf(ListOf(<<>>), "r1", NoMetadata)

\* ------------------------------------------------------------- actions
NoRepeat == [tag |-> "none"]

Init ==
    /\ props = [elements |-> <<>>, reportId |-> "r2",
                reportRunState |-> "NOT_RUNNING",
                showStaleElementIndicator |-> TRUE,
                widgetMgr |-> "mgr1", widgetsDisabled |-> FALSE]
    /\ width = 1
    /\ isFullScreen = FALSE
    /\ loaded = {}
    /\ broken = {}
    /\ out = renderElements(props, width)
    /\ fullScreenAtRender = FALSE
    /\ repeat = NoRepeat

\* render: AutoSizer calls renderElements with the width it measured.
Render(p, w, rep) ==
    /\ props' = p
    /\ width' = w
    /\ out' = renderElements(p, w)
    /\ fullScreenAtRender' = isFullScreen
    /\ repeat' = rep
    /\ UNCHANGED <<isFullScreen, loaded, broken>>

\* A PureComponent renders again when it is handed props that differ; a
\* render with the props as they are is Measure.
Receive(p) ==
    /\ p # props
    /\ Render(p, width, NoRepeat)

\* The parent hands in the element tree with one report element set.
Deliver(path, item) ==
    /\ path \in Slots(props.elements)
    /\ item.element.tag = "List" => Len(path) <= MaxDepth
    /\ LET elements == SetIn(props.elements, path, item)
       IN  /\ NodeCount(elements) <= MaxNodes
           /\ Receive([props EXCEPT !.elements = elements])

SetRunState(s) == Receive([props EXCEPT !.reportRunState = s])

SetStaleIndicator(b) == Receive([props EXCEPT !.showStaleElementIndicator = b])

SetReportId(r) == Receive([props EXCEPT !.reportId = r])

SetWidgetsDisabled(b) == Receive([props EXCEPT !.widgetsDisabled = b])

SetWidgetMgr(m) == Receive([props EXCEPT !.widgetMgr = m])

\* AutoSizer measures again and calls its child function with the props as
\* they are.
Measure(w) ==
    Render(props, w,
           IF w = width
           THEN [tag |-> "same", out |-> out, fullScreen |-> fullScreenAtRender]
           ELSE NoRepeat)

\* Some element enters or leaves full-screen mode.
ToggleFullScreen ==
    /\ isFullScreen' = ~isFullScreen
    /\ UNCHANGED <<props, width, loaded, broken, out, fullScreenAtRender, repeat>>

\* The import of a lazy component resolves.
LoadComplete(t) ==
    /\ t \in LazyTypes \ loaded
    /\ loaded' = loaded \cup {t}
    /\ UNCHANGED <<props, width, isFullScreen, broken, out, fullScreenAtRender,
                   repeat>>

\* The render of a leaf component starts to raise.
ComponentFails(t) ==
    /\ t \notin broken
    /\ broken' = broken \cup {t}
    /\ UNCHANGED <<props, width, isFullScreen, loaded, out, fullScreenAtRender,
                   repeat>>

\* Trees of empty, missing and plain elements in every run state.
Items == {Leaf("empty", "r1"), Leaf("text", "r1"), NoPayload, EmptyBlock}

Next ==
    \/ \E path \in UNION {Slots(props.elements)}, item \in Items :
          Deliver(path, item)
    \/ \E s \in RunStates : SetRunState(s)

Spec == Init /\ [][Next]_vars

\* Trees of plain and lazy elements; lazy imports resolve, components fail.
LazyItems == {Leaf("text", "r1"), Leaf("dataFrame", "r1"),
              Leaf("button", "r1"), NoPayload, EmptyBlock}

NextLazy ==
    \/ \E path \in UNION {Slots(props.elements)}, item \in LazyItems :
          Deliver(path, item)
    \/ \E t \in {"dataFrame", "button"} : LoadComplete(t)
    \/ \E t \in {"text", "dataFrame"} : ComponentFails(t)

SpecLazy == Init /\ [][NextLazy]_vars

\* Trees of elements of the current and of an older report; the run state,
\* the stale indicator and the full-screen flag change, AutoSizer measures
\* again.
StaleItems == {Leaf("text", "r1"), Leaf("text", "r2"), EmptyBlock}

NextStale ==
    \/ \E path \in UNION {Slots(props.elements)}, item \in StaleItems :
          Deliver(path, item)
    \/ \E s \in RunStates : SetRunState(s)
    \/ \E b \in BOOLEAN : SetStaleIndicator(b)
    \/ ToggleFullScreen
    \/ Measure(width)

SpecStale == Init /\ [][NextStale]_vars

\* Trees with widgets; every prop of the root Block changes.
PropsItems == {Leaf("text", "r1"), Leaf("button", "r1"), EmptyBlock}

NextProps ==
    \/ \E path \in UNION {Slots(props.elements)}, item \in PropsItems :
          Deliver(path, item)
    \/ \E s \in RunStates : SetRunState(s)
    \/ \E b \in BOOLEAN : SetStaleIndicator(b)
    \/ \E r \in ReportIds : SetReportId(r)
    \/ \E b \in BOOLEAN : SetWidgetsDisabled(b)
    \/ \E m \in WidgetMgrs : SetWidgetMgr(m)

SpecProps == Init /\ [][NextProps]_vars

\* One element with every kind of sizing metadata, in containers of every
\* width.
Metadatas ==
    {NoMetadata, MetadataOf(NoDimensionSpec)}
    \cup {MetadataOf(DimensionSpec(w, h)) : w \in 0..MaxDim, h \in 0..MaxDim}

DimItems ==
    {ReportElementOf(MapOf(type), "r1", metadata) :
        type \in {"text", "dataFrame", "button"}, metadata \in Metadatas}

NextDim ==
    \/ \E item \in DimItems : Deliver(<<1>>, item)
    \/ \E w \in Widths : Measure(w)

SpecDim == Init /\ [][NextDim]_vars

\* ------------------------------------------------- reading the results
IsEmpty(reportElement) ==
    /\ reportElement.element.tag = "Map"
    /\ reportElement.element.type = "empty"

IsBlockNode(node) == node.className = "stBlock"
IsEmptyNode(node) == node.className = "stEmpty"
IsLeafNode(node) == ~IsBlockNode(node) /\ ~IsEmptyNode(node)

\* Some report element of the tree, at any depth, has no payload.
RECURSIVE HasMissing(_)
HasMissing(elements) ==
    \E i \in 1..Len(elements) :
       \/ elements[i].element.tag = "undefined"
       \/ /\ elements[i].element.tag = "List"
          /\ HasMissing(elements[i].element.items)

\* The exceptions that left a call of renderElements, of the root Block or of
\* a nested one.
RECURSIVE Raised(_)
Raised(result) ==
    IF result.threw
    THEN {result.error}
    ELSE UNION {Raised(result.value[i].block.rendered) :
                i \in {j \in 1..Len(result.value) : IsBlockNode(result.value[j])}}

\* The leaf nodes of a result, at every depth.
RECURSIVE LeafNodes(_)
LeafNodes(result) ==
    IF result.threw
    THEN {}
    ELSE {result.value[i] : i \in {j \in 1..Len(result.value) :
                                     IsLeafNode(result.value[j])}}
         \cup UNION {LeafNodes(result.value[i].block.rendered) :
                     i \in {j \in 1..Len(result.value) :
                              IsBlockNode(result.value[j])}}

\* The result has one node per child, in order, the k-th keyed k: a nested
\* Block over the list for a List child, a leaf node for any other child.
RECURSIVE Mirrors(_, _)
Mirrors(elements, result) ==
    /\ ~result.threw
    /\ Len(result.value) = Len(elements)
    /\ \A i \in 1..Len(elements) :
          LET node == result.value[i]
              element == elements[i].element
          IN  /\ node.key = i - 1
              /\ IF element.tag = "List"
                 THEN /\ IsBlockNode(node)
                      /\ node.block.props.elements = element.items
                      /\ Mirrors(element.items, node.block.rendered)
                 ELSE ~IsBlockNode(node)

\* Wherever a render returned, every empty child of its list is the bare
\* stEmpty div keyed by the child's index.
RECURSIVE EmptiesAreBare(_, _)
EmptiesAreBare(elements, result) ==
    \/ result.threw
    \/ /\ Len(result.value) = Len(elements)
       /\ \A i \in 1..Len(elements) :
             /\ IsEmpty(elements[i]) =>
                   result.value[i] =
                       [tag |-> "div", className |-> "stEmpty", key |-> i - 1]
             /\ elements[i].element.tag = "List" =>
                   /\ IsBlockNode(result.value[i])
                   /\ EmptiesAreBare(elements[i].element.items,
                                     result.value[i].block.rendered)

StaleClass == "element-container stale-element"

\* A leaf is to be marked stale: the indicator is on, nothing is full
\* screen, and a rerun was requested or the element is of another report
\* than the running one.
ExpectedStale(p, fullScreen, reportElement) ==
    /\ p.showStaleElementIndicator
    /\ ~fullScreen
    /\ \/ p.reportRunState = RERUN_REQUESTED
       \/ /\ p.reportRunState = RUNNING
          /\ reportElement.reportId # p.reportId

\* Every leaf node, at every depth, carries the stale class exactly when
\* ExpectedStale says so of its report element, props p and the flag.
RECURSIVE StaleMarks(_, _, _, _)
StaleMarks(elements, result, p, fullScreen) ==
    \/ result.threw
    \/ /\ Len(result.value) = Len(elements)
       /\ \A i \in 1..Len(elements) :
             LET node == result.value[i]
             IN  /\ IsLeafNode(node) =>
                       node.className =
                           (IF ExpectedStale(p, fullScreen, elements[i])
                            THEN StaleClass
                            ELSE "element-container")
                 /\ IsBlockNode(node) =>
                       StaleMarks(elements[i].element.items,
                                  node.block.rendered, p, fullScreen)

\* Every nested Block at every depth has the props of `p`, only the
\* elements differ.
RECURSIVE NestedProps(_, _, _)
NestedProps(elements, result, p) ==
    \/ result.threw
    \/ /\ Len(result.value) = Len(elements)
       /\ \A i \in 1..Len(elements) :
             LET node == result.value[i]
             IN  IsBlockNode(node) =>
                    /\ node.block.props =
                          [p EXCEPT !.elements = elements[i].element.items]
                    /\ NestedProps(elements[i].element.items,
                                   node.block.rendered, p)

\* The view shows every block, and at every leaf the "Loading..." alert
\* exactly when the leaf's component is lazy and not loaded, the component
\* itself when it is loaded (or not lazy) and does not fail.
RECURSIVE LazyShown(_, _)
LazyShown(result, view) ==
    /\ ~result.threw
    /\ ~view.crashed
    /\ Len(view.nodes) = Len(result.value)
    /\ \A i \in 1..Len(result.value) :
          LET node == result.value[i]
              shown == view.nodes[i]
          IN  /\ IsBlockNode(node) =>
                    /\ shown.shows = "block"
                    /\ LazyShown(node.block.rendered,
                                 [crashed |-> FALSE, nodes |-> shown.nodes])
              /\ IsEmptyNode(node) => shown.shows = "stEmpty"
              /\ IsLeafNode(node) =>
                    IF node.component.type \in LazyTypes \ loaded
                    THEN /\ shown.shows = "fallback"
                         /\ shown.alert.text = "Loading..."
                    ELSE /\ shown.shows # "fallback"
                         /\ node.component.type \notin broken =>
                               /\ shown.shows = "component"
                               /\ shown.component = node.component

\* The two views differ only where a leaf component failed: there the
\* boundary's error display stands for the component.
RECURSIVE OnlyFailedDiffer(_, _)
OnlyFailedDiffer(actual, healthy) ==
    IF healthy.crashed
    THEN actual = healthy
    ELSE
    /\ ~actual.crashed
    /\ Len(actual.nodes) = Len(healthy.nodes)
    /\ \A i \in 1..Len(healthy.nodes) :
          LET a == actual.nodes[i]
              h == healthy.nodes[i]
          IN  IF h.shows = "block"
              THEN /\ a.shows = "block"
                   /\ a.key = h.key
                   /\ OnlyFailedDiffer([crashed |-> FALSE, nodes |-> a.nodes],
                                       [crashed |-> FALSE, nodes |-> h.nodes])
              ELSE IF h.shows = "component" /\ h.component.type \in broken
              THEN a.shows = "error" /\ a.key = h.key
              ELSE a = h

\* Some view node, at any depth, shows `what`.
RECURSIVE Shows(_, _)
Shows(nodes, what) ==
    \E i \in 1..Len(nodes) :
       \/ nodes[i].shows = what
       \/ nodes[i].shows = "block" /\ Shows(nodes[i].nodes, what)

\* Every empty element of the tree, handed to renderElementWithErrorBoundary
\* with its index, comes back as the bare stEmpty div.
RECURSIVE EmptyCallsAreBare(_)
EmptyCallsAreBare(elements) ==
    \A i \in 1..Len(elements) :
       /\ IsEmpty(elements[i]) =>
             renderElementWithErrorBoundary(props, elements[i], i - 1, width) =
                 Return([tag |-> "div", className |-> "stEmpty", key |-> i - 1])
       /\ elements[i].element.tag = "List" =>
             EmptyCallsAreBare(elements[i].element.items)

\* ---------------------------------------------------------------- claims

\* C1: when the run state is RUNNING and the child at index i is an "empty"
\* element, the node rendered at index i is the non-empty element rendered
\* at index i by the render before, not the empty element.
C1_EmptyKeepsPrevious ==
    [][\A i \in 1..Len(props'.elements) :
          ( /\ props'.reportRunState = RUNNING
            /\ IsEmpty(props'.elements[i])
            /\ ~out.threw
            /\ i <= Len(out.value)
            /\ IsLeafNode(out.value[i])
            /\ ~out'.threw )
          => /\ IsLeafNode(out'.value[i])
             /\ out'.value[i].component.element = out.value[i].component.element
      ]_vars

\* C2: a report element with a missing payload fails with the error
\* "Transmission error." and only its own subtree is lost: the blocks around
\* it and its siblings are still rendered.
C2_MissingPayloadIsConfined ==
    HasMissing(props.elements) =>
        /\ Raised(out) = {"Transmission error."}
        /\ ~View(out, loaded, broken).crashed

\* C4: in every run state renderElements yields exactly one node per child of
\* every block, in order, the k-th keyed k, a nested Block for a List child
\* and a leaf node for any other child: the rendered tree has the shape of
\* the input tree.
C4_OneNodePerChild == Mirrors(props.elements, out)

C3_FailureStaysInLeaf ==
    /\ \A node \in LeafNodes(out) :
          \E k \in 1..Len(node.wrappers) : node.wrappers[k] = "ErrorBoundary"
    /\ OnlyFailedDiffer(View(out, loaded, broken), View(out, loaded, {}))

C3_Witness ==
    LET view == View(out, loaded, broken)
    IN  /\ ~view.crashed
        /\ \E i \in 1..Len(view.nodes) :
              /\ view.nodes[i].shows = "block"
              /\ Shows(view.nodes[i].nodes, "error")
        /\ Shows(view.nodes, "component")

C6_LoadingPlaceholder ==
    LET view == View(out, loaded, broken)
        usual == View(out, LazyTypes, broken)
    IN  IF usual.crashed THEN view = usual ELSE LazyShown(out, view)

C6_Witness ==
    LET view == View(out, loaded, broken)
    IN  /\ ~view.crashed
        /\ loaded # {}
        /\ Shows(view.nodes, "fallback")
        /\ \E i \in 1..Len(view.nodes) :
              /\ view.nodes[i].shows = "component"
              /\ view.nodes[i].component.type \in LazyTypes

\* C7: a non-empty leaf carries the class "stale-element" exactly when
\* showStaleElementIndicator is true, no element is in full-screen mode and
\* either the run state is RERUN_REQUESTED, or it is RUNNING and the
\* element's reportId differs from the Block's.
C7_StaleExactlyWhen ==
    StaleMarks(props.elements, out, props, fullScreenAtRender)

C7_Witness ==
    /\ props.reportRunState = RUNNING
    /\ \E node \in LeafNodes(out) : node.className = StaleClass
    /\ \E node \in LeafNodes(out) : node.className = "element-container"

\* C8: the width handed to a leaf component is min(spec width, container
\* width) when the metadata carries a dimension spec with width > 0 and the
\* container width otherwise, so never more than the container width; the
\* height is the spec height when that is > 0 and undefined otherwise, and
\* only a dataFrame receives it.
C8_Sizing ==
    (~out.threw /\ Len(out.value) = 1 /\ IsLeafNode(out.value[1])) =>
        LET c == out.value[1].component
            m == props.elements[1].metadata
            hasSpec == /\ m.tag # "undefined"
                       /\ m.elementDimensionSpec.tag # "undefined"
        IN  /\ c.width <= width
            /\ c.width = (IF hasSpec /\ m.elementDimensionSpec.width > 0
                          THEN Min(m.elementDimensionSpec.width, width)
                          ELSE width)
            /\ ("height" \in DOMAIN c) = (c.type = "dataFrame")
            /\ c.type = "dataFrame" =>
                  c.height = (IF hasSpec /\ m.elementDimensionSpec.height > 0
                              THEN {m.elementDimensionSpec.height}
                              ELSE {})

C8_Witness ==
    /\ ~out.threw
    /\ Len(out.value) = 1
    /\ out.value[1].component.type = "dataFrame"
    /\ out.value[1].component.width < width
    /\ out.value[1].component.height # {}

\* C10: a nested Block at any depth has the reportId, reportRunState,
\* showStaleElementIndicator, widgetMgr and widgetsDisabled of the root
\* Block; every widget is rendered with the root's widgetsDisabled and
\* widget-state manager, and staleness at every depth is decided against the
\* root's reportId and run state.
C10_NestedBlocksShareProps ==
    /\ NestedProps(props.elements, out, props)
    /\ \A node \in LeafNodes(out) :
          node.component.type \in WidgetTypes =>
             /\ node.component.disabled = props.widgetsDisabled
             /\ node.component.widgetMgr = props.widgetMgr
    /\ StaleMarks(props.elements, out, props, fullScreenAtRender)

C10_Witness ==
    /\ ~out.threw
    /\ props.widgetsDisabled
    /\ props.widgetMgr = "mgr2"
    /\ props.reportRunState = RERUN_REQUESTED
    /\ \E i \in 1..Len(out.value) :
          /\ IsBlockNode(out.value[i])
          /\ \E node \in LeafNodes(out.value[i].block.rendered) :
                /\ node.component.type \in WidgetTypes
                /\ node.className = StaleClass
====
